---- MODULE Spec2Model ----
(***************************************************************************)
(* Client-side orchestration of the Argo query front end: the App          *)
(* component's state (bounds, params, loading, previewData, logs), the     *)
(* Sidebar and MapComponent handlers that edit the bound, and the          *)
(* WebSocket session that handleSubmit opens.                              *)
(***************************************************************************)
EXTENDS Integers, Sequences, FiniteSets, TLC

\* ------------------------------------------------------------------ bounds
\* Channels (WebSocket objects) ever constructed.
MaxChan == 2
\* "log" events delivered, over all channels.
MaxLogs == 3
\* User edits of the bound and of the query parameters.
MaxEdits == 2
\* Data lines of a csv payload shown in the preview.
MaxRows == 15

\* ------------------------------------------------------------- JS values
Undefined == [t |-> "undefined"]
Null == [t |-> "null"]
NaN == [t |-> "NaN"]
Num(n) == [t |-> "number", n |-> n]
Str(s) == [t |-> "string", s |-> s]

Fields == {"north", "south", "east", "west"}
Chans == 1 .. MaxChan

\* Rectangles the user can draw or drag to on the map (Leaflet's getBounds of a
\* drawn rectangle: north > south and east > west).
Rects ==
  { [north |-> 2, south |-> 1, east |-> 2, west |-> 1],
    [north |-> 4, south |-> 1, east |-> 4, west |-> 0] }

\* Raw strings a bound input can deliver in e.target.value.
RawValues == {"", "3", "x"}

\* Inbound events (spec section 6): the data of a message event, parsed.
Msgs == {"a", "b"}
\* A csv text is the sequence of its characters.
Csvs == {<< >>, <<"A", ",", "B">>}
Filenames == {"argo.csv"}
Events ==
  {[type |-> "log", message |-> m] : m \in Msgs}
    \cup {[type |-> "error", message |-> m] : m \in Msgs}
    \cup {[type |-> "complete", csv |-> s, filename |-> fn] : s \in Csvs, fn \in Filenames}

\* The csv payloads shown in the preview: a header line and k data lines, each
\* the join of its cells with commas, the lines joined with line feeds, with
\* or without a final line feed. Data line i starts with the two digits of i;
\* a "ragged" payload alternates lines of one and of four cells.
Digits == << "0", "1", "2", "3", "4", "5", "6", "7", "8", "9" >>
Headers == { << <<"A">>, <<"B">>, <<"C">> >>, << <<"A">> >> }
Shapes == {"even", "ragged"}

DataCells(shape, i) ==
  LET id == << Digits[((i \div 10) % 10) + 1], Digits[(i % 10) + 1] >> IN
  IF shape = "even"
  THEN << id, <<"x">>, << >> >>
  ELSE IF i % 2 = 1 THEN << id >> ELSE << id, <<"x">>, <<"y">>, <<"z">> >>

RECURSIVE join(_, _)
join(a, sep) ==
  IF Len(a) = 0 THEN << >>
  ELSE IF Len(a) = 1 THEN a[1]
  ELSE a[1] \o << sep >> \o join(Tail(a), sep)

PreviewInputs ==
  [header : Headers, shape : Shapes, k : 0 .. MaxRows, newline : BOOLEAN]

Payload(in) ==
  join(<< join(in.header, ",") >>
         \o [i \in 1 .. in.k |-> join(DataCells(in.shape, i), ",")], "\n")
    \o (IF in.newline THEN << "\n" >> ELSE << >>)

PayloadOf == [in \in PreviewInputs |-> Payload(in)]

\* Payloads that are blank: empty, or white space only.
BlankCsvs == {<< "\n" >>, << " ", "\n" >>}

PreviewCsvs == {PayloadOf[in] : in \in PreviewInputs} \cup {<< >>} \cup BlankCsvs
PreviewEvents ==
  {[type |-> "complete", csv |-> s, filename |-> fn] :
     s \in PreviewCsvs, fn \in Filenames}

\* Query-parameter edits of the Sidebar.
ParamNames == {"minDepth"}
ParamRaw == {"5"}
Types == {"core", "bio"}

\* ------------------------------------------------------------------ state
VARIABLES
  bounds,       \* App: useState(null)
  params,       \* App: useState({...})
  loading,      \* App: useState(false)
  previewData,  \* App: useState(null)
  logs,         \* App: useState([])
  layers,       \* MapComponent: the rectangles held by the FeatureGroup
  writes,       \* calls of setBounds made so far
  redraws,      \* runs of MapComponent's effect that cleared and redrew the layers
  rendered,     \* the bounds of the last render: the prop the handlers' closures read
  deferRender,  \* whether a write made from a map event is rendered in a later task
  ready,        \* per channel: the WebSocket's readyState ("NONE" before construction)
  cap,          \* per channel: the {bounds, params} the handlers' closure captured
  sent,         \* per channel: the outbound messages (ws.send)
  closeCalls,   \* per channel: the client's calls of ws.close()
  recv,         \* per channel: the inbound events its onmessage has processed
  alerts,       \* the text of the last alert(), "" before any
  downloads,    \* the download attribute of each link clicked, in order
  submits,      \* submits that passed handleSubmit's check
  edits         \* user edits made (bounded by MaxEdits)

vars ==
  << bounds, params, loading, previewData, logs, layers, writes, redraws, rendered,
     deferRender, ready, cap, sent, closeCalls, recv, alerts, downloads, submits,
     edits >>

appVars == << bounds, params, loading, previewData, logs >>
chanVars == << ready, cap, sent, closeCalls, recv >>
mapVars == << layers, writes, redraws, rendered, deferRender >>

\* ----------------------------------------------------------------- helpers
\* {...bounds}: the own properties of bounds; spreading null gives none.
Spread(b) == IF b = Null THEN [f \in Fields |-> Undefined] ELSE b

\* bounds?.north and the like: a field of the bound, undefined while it is null.
Field(b, f) == Spread(b)[f]

\* The object literal {north: .., south: .., east: .., west: ..} built from an
\* overlay's getBounds().
FromLayer(r) == [f \in Fields |-> Num(r[f])]

\* parseFloat on the raw strings of RawValues.
parseFloat(value) ==
  CASE value = "3" -> Num(3)
    [] value = "x" -> NaN
    [] value = "" -> NaN
    [] OTHER -> NaN

isNaN(v) == v = NaN

\* typeof v === 'number' (NaN is a number too).
IsNumber(v) == v.t = "number" \/ v = NaN

AllNumeric(b) == b # Null /\ \A f \in Fields : IsNumber(b[f])

\* JSON.stringify of an object: properties whose value is undefined are omitted.
StringifyObj(o) == [k \in {k \in DOMAIN o : o[k] # Undefined} |-> o[k]]

\* JSON.stringify({ bounds, params }).
Stringify(b, p) ==
  [bounds |-> IF b = Null THEN Null ELSE StringifyObj(b), params |-> StringifyObj(p)]

\* Channels constructed so far; the next one is nOpened + 1.
nOpened == Cardinality({c \in Chans : ready[c] # "NONE"})

\* Channels open on the client side: constructed and not yet closing or closed.
OpenChans == {c \in Chans : ready[c] \in {"CONNECTING", "OPEN"}}

IsLog(data) == data.type = "log"

\* The messages of the "log" events a channel has processed, in arrival order.
LogMessages(c) ==
  LET ls == SelectSeq(recv[c], IsLog) IN [i \in 1 .. Len(ls) |-> ls[i].message]

\* The terminal event a channel has processed, if any.
Terminal(c) ==
  IF recv[c] # << >> /\ recv[c][Len(recv[c])].type # "log"
  THEN recv[c][Len(recv[c])].type
  ELSE "none"

\* "log" events processed so far by the channels of S.
RECURSIVE NLogs(_)
NLogs(S) ==
  IF S = {} THEN 0
  ELSE LET c == CHOOSE x \in S : TRUE IN Len(LogMessages(c)) + NLogs(S \ {c})

\* ------------------------------------------------------- MapComponent
\* useEffect([bounds]): when all four fields are numbers, clear the layers and,
\* if the bound is valid, add one rectangle built from it.
Effect(b, ls) ==
  IF AllNumeric(b)
  THEN IF b.north.n > b.south.n /\ b.east.n > b.west.n
       THEN {[f \in Fields |-> b[f].n]}
       ELSE {}
  ELSE ls

\* A setter that keeps the fields already set instead of replacing the object.
handleBoundsChange_merge(newBounds, ls) ==
  LET merged == [f \in Fields |->
                   IF Spread(bounds)[f] # Undefined THEN bounds[f] ELSE newBounds[f]] IN
  /\ bounds' = merged
  /\ writes' = writes + 1
  /\ rendered' = merged
  /\ layers' = Effect(merged, ls)
  /\ redraws' = redraws + (IF AllNumeric(merged) THEN 1 ELSE 0)
  /\ UNCHANGED deferRender

\* A setter whose redraw fires the overlay's handler again, which writes the
\* bound of the rectangle it finds a second time.
handleBoundsChange_feedback(newBounds, ls) ==
  /\ bounds' = newBounds
  /\ rendered' = newBounds
  /\ layers' = Effect(newBounds, ls)
  /\ writes' = writes + (IF AllNumeric(newBounds) THEN 2 ELSE 1)
  /\ redraws' = redraws + (IF AllNumeric(newBounds) THEN 2 ELSE 0)
  /\ UNCHANGED deferRender

\* App.handleBoundsChange / setBounds, then the re-render and its effect.
handleBoundsChange(newBounds, ls) ==
  /\ bounds' = newBounds
  /\ writes' = writes + 1
  /\ rendered' = newBounds
  /\ layers' = Effect(newBounds, ls)
  /\ redraws' = redraws + (IF AllNumeric(newBounds) THEN 1 ELSE 0)
  /\ UNCHANGED deferRender

\* MapComponent's onBoundsChange(...), called from a map event and so outside
\* React's event handling: the write is rendered at once, or, when the root
\* defers such writes, in a later task (Render), the handlers' closures
\* keeping the previous render's bounds until then.
MapComponent_onBoundsChange(newBounds, ls) ==
  IF deferRender
  THEN /\ bounds' = newBounds
       /\ writes' = writes + 1
       /\ layers' = ls
       /\ UNCHANGED << redraws, rendered, deferRender >>
  ELSE handleBoundsChange(newBounds, ls)

\* The deferred re-render of App and the effect of MapComponent it commits.
Render ==
  /\ rendered # bounds
  /\ rendered' = bounds
  /\ layers' = Effect(bounds, layers)
  /\ redraws' = redraws + (IF AllNumeric(bounds) THEN 1 ELSE 0)
  /\ UNCHANGED << appVars, writes, deferRender, chanVars, alerts, downloads, submits,
                  edits >>

\* EditControl onCreated: a rectangle drawn on the map.
onCreate(r) ==
  /\ edits < MaxEdits
  /\ edits' = edits + 1
  /\ MapComponent_onBoundsChange(FromLayer(r), layers \cup {r})
  /\ UNCHANGED << params, loading, previewData, logs, chanVars, alerts, downloads, submits >>

\* EditControl onEdited / the rectangle's 'edit' event: a held rectangle dragged
\* to a new extent.
onEdited(old, r) ==
  /\ edits < MaxEdits
  /\ old \in layers
  /\ edits' = edits + 1
  /\ MapComponent_onBoundsChange(FromLayer(r), (layers \ {old}) \cup {r})
  /\ UNCHANGED << params, loading, previewData, logs, chanVars, alerts, downloads, submits >>

\* ------------------------------------------------------------- Sidebar
\* A field handler that coerces the empty string to the number 0.
Sidebar_handleBoundsChange_zero(name, value) ==
  /\ edits < MaxEdits
  /\ edits' = edits + 1
  /\ LET numValue == IF value = "" THEN Num(0) ELSE parseFloat(value) IN
     IF ~isNaN(numValue)
     THEN handleBoundsChange([Spread(rendered) EXCEPT ![name] = numValue], layers)
     ELSE UNCHANGED << bounds, mapVars >>
  /\ UNCHANGED << params, loading, previewData, logs, chanVars, alerts, downloads, submits >>

\* A field handler that stores '' for every value that is not a number.
Sidebar_handleBoundsChange_unset(name, value) ==
  /\ edits < MaxEdits
  /\ edits' = edits + 1
  /\ LET numValue == IF value = "" THEN NaN ELSE parseFloat(value) IN
     IF ~isNaN(numValue)
     THEN handleBoundsChange([Spread(rendered) EXCEPT ![name] = numValue], layers)
     ELSE handleBoundsChange([Spread(rendered) EXCEPT ![name] = Str("")], layers)
  /\ UNCHANGED << params, loading, previewData, logs, chanVars, alerts, downloads, submits >>

\* A field handler that builds the new bound from the edited field alone,
\* without spreading the previous bound.
Sidebar_handleBoundsChange_reset(name, value) ==
  /\ edits < MaxEdits
  /\ edits' = edits + 1
  /\ IF value = ""
     THEN handleBoundsChange([Spread(Null) EXCEPT ![name] = Str("")], layers)
     ELSE LET numValue == parseFloat(value) IN
          IF ~isNaN(numValue)
          THEN handleBoundsChange([Spread(Null) EXCEPT ![name] = numValue], layers)
          ELSE UNCHANGED << bounds, mapVars >>
  /\ UNCHANGED << params, loading, previewData, logs, chanVars, alerts, downloads, submits >>

\* Sidebar.handleBoundsChange: an edit of one numeric bound field.
Sidebar_handleBoundsChange(name, value) ==
  /\ edits < MaxEdits
  /\ edits' = edits + 1
  /\ IF value = ""
     THEN handleBoundsChange([Spread(rendered) EXCEPT ![name] = Str("")], layers)
     ELSE LET numValue == parseFloat(value) IN
          IF ~isNaN(numValue)
          THEN handleBoundsChange([Spread(rendered) EXCEPT ![name] = numValue], layers)
          ELSE UNCHANGED << bounds, mapVars >>
  /\ UNCHANGED << params, loading, previewData, logs, chanVars, alerts, downloads, submits >>

\* Sidebar.handleChange: an edit of a date or depth input.
handleChange(name, value) ==
  /\ edits < MaxEdits
  /\ edits' = edits + 1
  /\ params' = [params EXCEPT ![name] = Str(value)]
  /\ UNCHANGED << bounds, mapVars, loading, previewData, logs, chanVars, alerts, downloads, submits >>

\* Sidebar.handleTypeChange.
handleTypeChange(type) ==
  /\ edits < MaxEdits
  /\ edits' = edits + 1
  /\ params' = [params EXCEPT !.type = Str(type)]
  /\ UNCHANGED << bounds, mapVars, loading, previewData, logs, chanVars, alerts, downloads, submits >>

\* {previewData && <DataPreview .../>}: null and the empty string render nothing.
Truthy(v) ==
  CASE v.t = "string" -> Len(v.s) > 0
    [] v.t = "number" -> v.n # 0
    [] OTHER -> FALSE

Min(a, b) == IF a <= b THEN a ELSE b

\* String.prototype.trim: white space and line terminators stripped at both ends.
WhiteSpace == {" ", "\t", "\n", "\r"}

RECURSIVE trimStart(_)
trimStart(s) ==
  IF s # << >> /\ Head(s) \in WhiteSpace THEN trimStart(Tail(s)) ELSE s

RECURSIVE trimEnd(_)
trimEnd(s) ==
  IF s # << >> /\ s[Len(s)] \in WhiteSpace
  THEN trimEnd(SubSeq(s, 1, Len(s) - 1))
  ELSE s

trim(s) == trimEnd(trimStart(s))

\* String.prototype.split(sep) for a one-character separator: the pieces
\* between the separators, empty pieces included; [""] for the empty string.
RECURSIVE split(_, _)
split(s, sep) ==
  IF \E i \in 1 .. Len(s) : s[i] = sep
  THEN LET i == CHOOSE i \in 1 .. Len(s) :
                  s[i] = sep /\ \A j \in 1 .. (i - 1) : s[j] # sep IN
       << SubSeq(s, 1, i - 1) >> \o split(SubSeq(s, i + 1, Len(s)), sep)
  ELSE << s >>

\* Array.prototype.slice(begin, end) for 0 <= begin <= end: the elements at the
\* 0-based indices begin .. end - 1 that exist.
slice(a, begin, end) == SubSeq(a, begin + 1, Min(end, Len(a)))

\* A preview that takes rows.slice(1, 10).
DataPreview_nine(csvData) ==
  IF ~Truthy(csvData)
  THEN Null
  ELSE LET rows == split(trim(csvData.s), "\n")
           headers == split(rows[1], ",")
           dataRows == slice(rows, 1, 10) IN
       [headers |-> headers,
        rows |-> [i \in 1 .. Len(dataRows) |-> split(dataRows[i], ",")]]

\* A preview without the early return on a falsy csvData.
DataPreview_noguard(csvData) ==
  LET rows == split(trim(csvData.s), "\n")
      headers == split(rows[1], ",")
      dataRows == slice(rows, 1, 11) IN
  [headers |-> headers,
   rows |-> [i \in 1 .. Len(dataRows) |-> split(dataRows[i], ",")]]

\* DataPreview: null for a falsy csvData, otherwise the rendered table, the
\* cells of its head row and of each body row.
DataPreview(csvData) ==
  IF ~Truthy(csvData)
  THEN Null
  ELSE LET rows == split(trim(csvData.s), "\n")
           headers == split(rows[1], ",")
           dataRows == slice(rows, 1, 11) IN
       [headers |-> headers,
        rows |-> [i \in 1 .. Len(dataRows) |-> split(dataRows[i], ",")]]

\* DataPreview onClose: the preview's Close button, present while it is rendered.
onClose ==
  /\ Truthy(previewData)
  /\ previewData' = Null
  /\ UNCHANGED << bounds, params, loading, logs, mapVars, chanVars, alerts, downloads, submits, edits >>

\* ----------------------------------------------------------------- App
\* new WebSocket(...): the next channel, with the closure's bounds and params.
NewWebSocket(c) ==
  /\ ready' = [ready EXCEPT ![c] = "CONNECTING"]
  /\ cap' = [cap EXCEPT ![c] = [bounds |-> rendered, params |-> params]]

\* A submit that raises the loading indication before it validates the bound.
handleSubmit_eager ==
  IF rendered = Null
  THEN /\ loading' = TRUE
       /\ alerts' = "Please select an area on the map first"
       /\ UNCHANGED << bounds, params, previewData, logs, mapVars, chanVars, downloads,
                       submits, edits >>
  ELSE /\ nOpened < MaxChan
       /\ loading' = TRUE
       /\ previewData' = Null
       /\ logs' = << "Initializing connection..." >>
       /\ NewWebSocket(nOpened + 1)
       /\ submits' = submits + 1
       /\ UNCHANGED << bounds, params, mapVars, sent, closeCalls, recv, alerts, downloads, edits >>

\* A submit that leaves the previous search's preview in place (no
\* setPreviewData(null)).
handleSubmit_keep ==
  IF rendered = Null
  THEN /\ alerts' = "Please select an area on the map first"
       /\ UNCHANGED << appVars, mapVars, chanVars, downloads, submits, edits >>
  ELSE /\ nOpened < MaxChan
       /\ loading' = TRUE
       /\ logs' = << "Initializing connection..." >>
       /\ NewWebSocket(nOpened + 1)
       /\ submits' = submits + 1
       /\ UNCHANGED << bounds, params, previewData, mapVars, sent, closeCalls, recv,
                       alerts, downloads, edits >>

\* App.handleSubmit.
handleSubmit ==
  IF rendered = Null
  THEN /\ alerts' = "Please select an area on the map first"
       /\ UNCHANGED << appVars, mapVars, chanVars, downloads, submits, edits >>
  ELSE /\ nOpened < MaxChan
       /\ loading' = TRUE
       /\ previewData' = Null
       /\ logs' = << "Initializing connection..." >>
       /\ NewWebSocket(nOpened + 1)
       /\ submits' = submits + 1
       /\ UNCHANGED << bounds, params, mapVars, sent, closeCalls, recv, alerts, downloads, edits >>

\* An onopen that serializes the state's bounds and params, not the closure's.
ws_onopen_current(c) ==
  /\ ready[c] = "CONNECTING"
  /\ ready' = [ready EXCEPT ![c] = "OPEN"]
  /\ sent' = [sent EXCEPT ![c] = Append(@, Stringify(bounds, params))]
  /\ UNCHANGED << appVars, mapVars, cap, closeCalls, recv, alerts, downloads, submits, edits >>

\* ws.onopen, at the channel's open event.
ws_onopen(c) ==
  /\ ready[c] = "CONNECTING"
  /\ ready' = [ready EXCEPT ![c] = "OPEN"]
  /\ sent' = [sent EXCEPT ![c] = Append(@, Stringify(cap[c].bounds, cap[c].params))]
  /\ UNCHANGED << appVars, mapVars, cap, closeCalls, recv, alerts, downloads, submits, edits >>

\* ws.close() called by the client on an open channel.
ws_close(c) ==
  /\ ready' = [ready EXCEPT ![c] = "CLOSING"]
  /\ closeCalls' = [closeCalls EXCEPT ![c] = @ + 1]

\* A log branch that prepends: setLogs(prev => [data.message, ...prev]).
onmessage_log_prepend(c, data) ==
  /\ logs' = << data.message >> \o logs
  /\ UNCHANGED << bounds, params, loading, previewData, mapVars, ready, cap, sent,
                  closeCalls, alerts, downloads, submits, edits >>

\* A log branch that skips a message equal to the last entry.
onmessage_log_dedup(c, data) ==
  /\ logs' = IF logs # << >> /\ logs[Len(logs)] = data.message
             THEN logs
             ELSE Append(logs, data.message)
  /\ UNCHANGED << bounds, params, loading, previewData, mapVars, ready, cap, sent,
                  closeCalls, alerts, downloads, submits, edits >>

\* ws.onmessage, data.type === 'log'.
onmessage_log(c, data) ==
  /\ logs' = Append(logs, data.message)
  /\ UNCHANGED << bounds, params, loading, previewData, mapVars, ready, cap, sent,
                  closeCalls, alerts, downloads, submits, edits >>

\* An error branch that leaves the channel open (no ws.close()).
onmessage_error_noclose(c, data) ==
  /\ alerts' = "Error: " \o data.message
  /\ loading' = FALSE
  /\ UNCHANGED << bounds, params, previewData, logs, mapVars, ready, cap, sent,
                  closeCalls, downloads, submits, edits >>

\* ws.onmessage, data.type === 'error'.
onmessage_error(c, data) ==
  /\ alerts' = "Error: " \o data.message
  /\ loading' = FALSE
  /\ ws_close(c)
  /\ UNCHANGED << bounds, params, previewData, logs, mapVars, cap, sent,
                  downloads, submits, edits >>

\* ws.onmessage, data.type === 'complete'.
onmessage_complete(c, data) ==
  /\ downloads' = Append(downloads, data.filename)
  /\ previewData' = Str(data.csv)
  /\ loading' = FALSE
  /\ ws_close(c)
  /\ UNCHANGED << bounds, params, logs, mapVars, cap, sent, alerts, submits, edits >>

\* ws.onmessage: one inbound event, dispatched on data.type. Message events are
\* delivered only while the WebSocket is OPEN (none after ws.close()).
ws_onmessage(c, data) ==
  /\ ready[c] = "OPEN"
  /\ data.type = "log" => NLogs(Chans) < MaxLogs
  /\ recv' = [recv EXCEPT ![c] = Append(@, data)]
  /\ IF data.type = "log" THEN onmessage_log(c, data)
     ELSE IF data.type = "error" THEN onmessage_error(c, data)
     ELSE onmessage_complete(c, data)

\* An onerror that only reports: no setLoading(false).
ws_onerror_stuck(c) ==
  /\ ready[c] \in {"CONNECTING", "OPEN", "CLOSING"}
  /\ ready' = [ready EXCEPT ![c] = "CLOSED"]
  /\ alerts' = "Connection failed."
  /\ UNCHANGED << bounds, params, loading, previewData, logs, mapVars, cap, sent,
                  closeCalls, recv, downloads, submits, edits >>

\* An onerror that reconnects: it constructs a new WebSocket for the same request.
ws_onerror_retry(c) ==
  /\ ready[c] \in {"CONNECTING", "OPEN", "CLOSING"}
  /\ loading' = FALSE
  /\ alerts' = "Connection failed."
  /\ IF nOpened < MaxChan
     THEN /\ ready' = [ready EXCEPT ![c] = "CLOSED", ![nOpened + 1] = "CONNECTING"]
          /\ cap' = [cap EXCEPT ![nOpened + 1] = cap[c]]
     ELSE /\ ready' = [ready EXCEPT ![c] = "CLOSED"]
          /\ UNCHANGED cap
  /\ UNCHANGED << bounds, params, previewData, logs, mapVars, sent, closeCalls,
                  recv, downloads, submits, edits >>

\* ws.onerror: the transport failed the connection (refused, reset, protocol
\* error). A connection can fail while connecting, while open and during the
\* closing handshake that follows ws.close(); the WebSocket is CLOSED when its
\* error event is dispatched, and the handler stays registered throughout.
ws_onerror(c) ==
  /\ ready[c] \in {"CONNECTING", "OPEN", "CLOSING"}
  /\ ready' = [ready EXCEPT ![c] = "CLOSED"]
  /\ loading' = FALSE
  /\ alerts' = "Connection failed."
  /\ UNCHANGED << bounds, params, previewData, logs, mapVars, cap, sent, closeCalls,
                  recv, downloads, submits, edits >>

\* The channel's close event without an error event (the peer closed, or the
\* closing handshake finished): the code registers no onclose handler.
ChannelClosed(c) ==
  /\ ready[c] \in {"OPEN", "CLOSING"}
  /\ ready' = [ready EXCEPT ![c] = "CLOSED"]
  /\ UNCHANGED << appVars, mapVars, cap, sent, closeCalls, recv, alerts, downloads,
                  submits, edits >>

\* ------------------------------------------------------------ specification
InitApp ==
  /\ bounds = Null
  /\ params = [startDate |-> Str("2020-01-01"), endDate |-> Str("2024-12-31"),
               minDepth |-> Num(0), maxDepth |-> Num(2000), type |-> Str("core"),
               variables |-> Str("Temp,Psal")]
  /\ loading = FALSE
  /\ previewData = Null
  /\ logs = << >>
  /\ layers = {}
  /\ writes = 0
  /\ redraws = 0
  /\ rendered = Null
  /\ ready = [c \in Chans |-> "NONE"]
  /\ cap = [c \in Chans |-> Null]
  /\ sent = [c \in Chans |-> << >>]
  /\ closeCalls = [c \in Chans |-> 0]
  /\ recv = [c \in Chans |-> << >>]
  /\ alerts = ""
  /\ downloads = << >>
  /\ submits = 0
  /\ edits = 0

\* Every event's render is committed before the next event is delivered.
Init == InitApp /\ deferRender = FALSE

\* Either scheduling of the renders of writes made from map events.
InitRender == InitApp /\ deferRender \in BOOLEAN

\* Every handler of the program.
Next ==
  \/ \E r \in Rects : onCreate(r)
  \/ \E old \in layers, r \in Rects : onEdited(old, r)
  \/ \E name \in Fields, value \in RawValues : Sidebar_handleBoundsChange(name, value)
  \/ \E name \in ParamNames, value \in ParamRaw : handleChange(name, value)
  \/ \E type \in Types : handleTypeChange(type)
  \/ onClose
  \/ handleSubmit
  \/ \E c \in Chans : ws_onopen(c)
  \/ \E c \in Chans, data \in Events : ws_onmessage(c, data)
  \/ \E c \in Chans : ws_onerror(c)
  \/ \E c \in Chans : ChannelClosed(c)
  \/ Render

Spec == Init /\ [][Next]_vars

\* The request lifecycle, a restriction of Next: the bound is set by drawing
\* rectangles and the category by its buttons, and the submits, the sessions'
\* handlers and the transport's events run in every interleaving.
NextProtocol ==
  \/ \E r \in Rects : onCreate(r)
  \/ \E type \in Types : handleTypeChange(type)
  \/ onClose
  \/ handleSubmit
  \/ \E c \in Chans : ws_onopen(c)
  \/ \E c \in Chans, data \in Events : ws_onmessage(c, data)
  \/ \E c \in Chans : ws_onerror(c)
  \/ \E c \in Chans : ChannelClosed(c)

SpecProtocol == Init /\ [][NextProtocol]_vars

\* The bound and its editors, a restriction of Next: every overlay, field and
\* parameter edit, and submits up to the opening of their channels.
NextBounds ==
  \/ \E r \in Rects : onCreate(r)
  \/ \E old \in layers, r \in Rects : onEdited(old, r)
  \/ \E name \in Fields, value \in RawValues : Sidebar_handleBoundsChange(name, value)
  \/ \E name \in ParamNames, value \in ParamRaw : handleChange(name, value)
  \/ \E type \in Types : handleTypeChange(type)
  \/ handleSubmit
  \/ \E c \in Chans : ws_onopen(c)

SpecBounds == Init /\ [][NextBounds]_vars

\* The two editors of the bound under either scheduling of the renders, a
\* restriction of Next: overlay edits, field edits and the deferred render.
NextRender ==
  \/ \E r \in Rects : onCreate(r)
  \/ \E old \in layers, r \in Rects : onEdited(old, r)
  \/ \E name \in Fields, value \in RawValues : Sidebar_handleBoundsChange(name, value)
  \/ Render

SpecRender == InitRender /\ [][NextRender]_vars

\* The preview, a restriction of Next: one search, which the service answers
\* with a complete event carrying one of the preview payloads, and the
\* preview's Close button.
NextPreview ==
  \/ \E r \in Rects : onCreate(r)
  \/ (nOpened = 0 /\ handleSubmit)
  \/ \E c \in Chans : ws_onopen(c)
  \/ \E c \in Chans, data \in PreviewEvents : ws_onmessage(c, data)
  \/ onClose

SpecPreview == Init /\ [][NextPreview]_vars

\* ------------------------------------------------------------------ claims
\* Geometry's validity predicate (spec section 3): all four fields numeric,
\* north > south and east > west.
ValidBound(b) ==
  /\ b # Null
  /\ \A f \in Fields : b[f].t = "number"
  /\ b.north.n > b.south.n
  /\ b.east.n > b.west.n

\* The line handleSubmit seeds the logs with.
Seed == "Initializing connection..."

CompleteEvents == {data \in Events : data.type = "complete"}
ErrorEvents == {data \in Events : data.type = "error"}

\* A handler of channel c runs in this step.
EventOf(c) ==
  \/ ws_onopen(c)
  \/ \E data \in Events : ws_onmessage(c, data)
  \/ ws_onerror(c)

\* C1: in no reachable state are two channels open on the client side (opened
\* and not yet closed by the client or the transport) at the same time.
C1_AtMostOneOpenChannel == Cardinality(OpenChans) <= 1

\* C2: a channel is only ever opened by a submit whose bound is present, fully
\* set and numerically valid; submitting with any other bound opens none.
C2_InvalidBoundOpensNoChannel ==
  \A c \in Chans : ready[c] # "NONE" => ValidBound(cap[c].bounds)

\* C3 as stated: when a session's complete event is processed, the logs are
\* exactly the n log messages the session received, in arrival order, with
\* length n, loading is cleared and the artifact is present.
C3_LogsAreTheMessages ==
  [][\A c \in Chans, data \in CompleteEvents :
       ws_onmessage(c, data) =>
         /\ logs' = LogMessages(c)
         /\ Len(logs') = Len(LogMessages(c))
         /\ loading' = FALSE
         /\ previewData' = Str(data.csv)]_vars

\* C3 amended: when the complete event of the latest session is processed and
\* no other session has delivered a log event, the logs are the seed line
\* followed by the session's n log messages in arrival order (length n + 1),
\* loading is cleared and the preview holds the event's csv.
C3_LogsAreSeedThenMessages ==
  [][\A c \in Chans, data \in CompleteEvents :
       ( /\ ws_onmessage(c, data)
         /\ c = nOpened
         /\ \A d \in Chans \ {c} : LogMessages(d) = << >> ) =>
         /\ logs' = << Seed >> \o LogMessages(c)
         /\ Len(logs') = Len(LogMessages(c)) + 1
         /\ loading' = FALSE
         /\ previewData' = Str(data.csv)]_vars

\* C3 witness: a lone session has received three log events (not all equal)
\* and then complete.
C3_Witness ==
  /\ nOpened = 1
  /\ Terminal(1) = "complete"
  /\ LogMessages(1) = << "a", "b", "a" >>
  /\ logs = << Seed, "a", "b", "a" >>
  /\ ~loading
  /\ previewData = Str(<<"A", ",", "B">>)

\* C4: when a session's error event is processed (after any number of log
\* events), loading is cleared, the alert carries the event's message, and the
\* client closes the channel, once: it had not closed it before and never
\* closes it again.
C4_ErrorEventFailsAndClosesOnce ==
  [][\A c \in Chans :
       /\ \A data \in ErrorEvents :
            ws_onmessage(c, data) =>
              /\ loading' = FALSE
              /\ alerts' = "Error: " \o data.message
              /\ closeCalls[c] = 0
              /\ closeCalls'[c] = 1
              /\ ready'[c] = "CLOSING"
       /\ closeCalls[c] = 1 => closeCalls'[c] = 1]_vars

\* C4 witness: a lone session received log, error.
C4_Witness ==
  /\ nOpened = 1
  /\ recv[1] = << [type |-> "log", message |-> "a"], [type |-> "error", message |-> "b"] >>
  /\ alerts = "Error: b"
  /\ ~loading
  /\ closeCalls[1] = 1
  /\ ready[1] = "CLOSING"

\* C5: once the latest channel is closed without having processed a terminal
\* event, no event of the session is left to come, so loading must be cleared
\* by then.
C5_ClosedWithoutTerminalClearsLoading ==
  \A c \in Chans :
    (c = nOpened /\ ready[c] = "CLOSED" /\ Terminal(c) = "none") => ~loading

\* C6: a transport failure in Connecting or Running clears loading, alerts the
\* generic message and leaves the channel closed on the client side; a closed
\* channel runs no handler any more.
C6_TransportFailureFails ==
  [][\A c \in Chans :
       /\ (ws_onerror(c) /\ ready[c] \in {"CONNECTING", "OPEN"}) =>
            /\ loading' = FALSE
            /\ alerts' = "Connection failed."
            /\ ready'[c] = "CLOSED"
            /\ c \notin OpenChans'
       /\ ready[c] = "CLOSED" => (~EventOf(c) /\ ready'[c] = "CLOSED")]_vars

\* C6 witness: a running session (request sent, one log processed) has failed.
C6_Witness ==
  /\ nOpened = 1
  /\ ready[1] = "CLOSED"
  /\ Len(sent[1]) = 1
  /\ Len(recv[1]) = 1
  /\ Terminal(1) = "none"
  /\ alerts = "Connection failed."
  /\ ~loading

\* C7: processing complete sets the preview to the event's csv, clears
\* loading, triggers one download with the event's filename and closes the
\* channel once; afterwards no event of that session changes logs, loading or
\* the preview.
C7_CompleteIsTerminal ==
  [][\A c \in Chans :
       /\ \A data \in CompleteEvents :
            ws_onmessage(c, data) =>
              /\ previewData' = Str(data.csv)
              /\ loading' = FALSE
              /\ downloads' = Append(downloads, data.filename)
              /\ closeCalls[c] = 0
              /\ closeCalls'[c] = 1
       /\ (Terminal(c) = "complete" /\ EventOf(c)) =>
            UNCHANGED << logs, loading, previewData >>]_vars

\* C8: a channel carries no outbound message before its open event and exactly
\* one from then on, the serialized {bounds, params} the submit captured; no
\* inbound event is processed before it is sent.
C8_OneRequestAtOpen ==
  \A c \in Chans :
    /\ Len(sent[c]) <= 1
    /\ ready[c] \in {"NONE", "CONNECTING"} => (sent[c] = << >> /\ recv[c] = << >>)
    /\ ready[c] \in {"OPEN", "CLOSING"} => Len(sent[c]) = 1
    /\ recv[c] # << >> => Len(sent[c]) = 1
    /\ sent[c] # << >> =>
         sent[c][1] = [bounds |-> StringifyObj(cap[c].bounds),
                       params |-> StringifyObj(cap[c].params)]

\* C8 witness: the bound was edited between submit and open, the request went
\* out and an inbound event has been processed.
C8_Witness ==
  \E c \in Chans :
    /\ ready[c] = "OPEN"
    /\ Len(sent[c]) = 1
    /\ recv[c] # << >>
    /\ cap[c].bounds # bounds

\* C9: the channels ever opened are as many as the submits that passed the
\* check of handleSubmit, and no channel carries more than one request.
C9_NoAutomaticRetry ==
  /\ nOpened = submits
  /\ \A c \in Chans : Len(sent[c]) <= 1

\* C9 witness: one submit, whose session ended by a service error, and another
\* whose channel failed; two channels in all.
C9_Witness ==
  /\ submits = 2
  /\ Terminal(1) = "error"
  /\ ready[1] = "CLOSED"
  /\ ready[2] = "CLOSED"
  /\ alerts = "Connection failed."

\* C10: an overlay-origin update (rectangle created or edited) leaves
\* currentBound equal to the rectangle's four values, whatever the bound was,
\* and the redraw it triggers leaves exactly that rectangle drawn.
C10_OverlayReplacesAllFour ==
  [][\A r \in Rects :
       (onCreate(r) \/ \E old \in layers : onEdited(old, r)) =>
         /\ \A f \in Fields : bounds'[f] = Num(r[f])
         /\ layers' = {r}]_vars

\* C10 witness: a submit captured a bound with unset fields, and an overlay
\* update then replaced all four fields.
C10_Witness ==
  \E c \in Chans, r \in Rects :
    /\ ready[c] # "NONE"
    /\ cap[c].bounds.south = Undefined
    /\ \A f \in Fields : bounds[f] = Num(r[f])
    /\ layers = {r}

\* The values a bound field holds while it is unset: the '' the field handler
\* stores, or no property at all.
IsUnset(v) == v = Str("") \/ v = Undefined

\* C11: for every bound field and every prior bound, a field edit with the
\* empty string leaves that field unset ('') in currentBound, never the number 0.
C11_EmptyFieldIsUnset ==
  [][\A name \in Fields :
       Sidebar_handleBoundsChange(name, "") =>
         /\ bounds' # Null
         /\ bounds'[name] = Str("")
         /\ bounds'[name] # Num(0)]_vars

\* A drawn bound one of whose fields was then emptied.
C11_Witness ==
  /\ bounds # Null
  /\ bounds.north = Str("")
  /\ bounds.south = Num(1) /\ bounds.east = Num(2) /\ bounds.west = Num(1)
  /\ edits = 2

\* C12 as stated: a field edit whose raw value is non-empty and does not parse
\* leaves that field unset in currentBound.
C12_UnparsableFieldIsUnset ==
  [][\A name \in Fields, value \in RawValues :
       (Sidebar_handleBoundsChange(name, value) /\ value # ""
          /\ isNaN(parseFloat(value))) =>
         IsUnset(Field(bounds', name))]_vars

\* C12 amended: a field edit whose raw value is non-empty and does not parse
\* changes neither currentBound nor the overlay: the field keeps the value it
\* had, numeric or unset, and is never set to 0 by the edit.
C12_UnparsableFieldIsIgnored ==
  [][\A name \in Fields, value \in RawValues :
       (Sidebar_handleBoundsChange(name, value) /\ value # ""
          /\ isNaN(parseFloat(value))) =>
         /\ bounds' = bounds
         /\ layers' = layers]_vars

\* A drawn bound, still whole and still drawn after a second edit: the state an
\* unparsable field edit of the drawn bound leaves.
C12_Witness ==
  /\ bounds = FromLayer([north |-> 2, south |-> 1, east |-> 2, west |-> 1])
  /\ layers = {[north |-> 2, south |-> 1, east |-> 2, west |-> 1]}
  /\ edits = 2

\* C13: the preview of a payload with a header line and k data lines has the
\* header's cells as its head row and exactly min(k, 10) body rows, which are
\* the cells of the first min(k, 10) data lines in input order, whatever their
\* number of cells; header "A,B,C" with 15 data lines gives 3 columns and 10 rows.
C13_PreviewIsFirstTenRows ==
  \A in \in PreviewInputs :
    previewData = Str(PayloadOf[in]) =>
      LET table == DataPreview(previewData) IN
      /\ table # Null
      /\ table.headers = in.header
      /\ Len(table.rows) = Min(in.k, 10)
      /\ \A i \in 1 .. Min(in.k, 10) : table.rows[i] = DataCells(in.shape, i)
      /\ (in.header = << <<"A">>, <<"B">>, <<"C">> >> /\ in.k = 15) =>
            Len(table.headers) = 3 /\ Len(table.rows) = 10

\* The preview of a delivered payload of header "A,B,C" and 15 ragged data
\* lines is on display.
C13_Witness ==
  /\ previewData =
       Str(PayloadOf[[header |-> << <<"A">>, <<"B">>, <<"C">> >>, shape |-> "ragged",
                      k |-> 15, newline |-> TRUE]])
  /\ downloads # << >>
  /\ ~loading

\* C14 as stated: the preview of the empty string is a table whose head row is
\* one empty cell and which has no body rows.
C14_EmptyPreviewIsEmptyTable ==
  previewData = Str(<< >>) =>
    DataPreview(previewData) = [headers |-> << << >> >>, rows |-> << >>]

\* C14 amended: for the empty string no table is built and nothing is rendered
\* (DataPreview returns null, and App does not mount it); a payload of white
\* space only gives the table with one empty head cell and no body rows.
C14_EmptyPreviewIsNothing ==
  /\ previewData = Str(<< >>) =>
       ~Truthy(previewData) /\ DataPreview(previewData) = Null
  /\ (previewData # Null /\ previewData.s \in BlankCsvs) =>
       DataPreview(previewData) = [headers |-> << << >> >>, rows |-> << >>]

\* A search completed with the empty string as its csv.
C14_Witness ==
  /\ previewData = Str(<< >>)
  /\ downloads # << >>
  /\ ~loading

\* C15: once a later submit has opened a newer channel, no handler of an
\* earlier channel (log, error or complete message, transport failure) changes
\* the logs, the loading indication or the artifact.
C15_SupersededSessionIsInert ==
  [][\A c \in Chans :
       (c < nOpened /\ EventOf(c)) => UNCHANGED << logs, loading, previewData >>]_vars

\* C16: a log event extends the logs by exactly its message, at the end, the
\* previous logs staying an unchanged prefix even when the message equals the
\* last entry; and the logs change in no other way than by such an append or
\* by the reset of an accepted submit.
C16_LogEventAppendsItsMessage ==
  [][/\ \A c \in Chans, data \in Events :
          (data.type = "log" /\ ws_onmessage(c, data)) =>
            /\ Len(logs') = Len(logs) + 1
            /\ SubSeq(logs', 1, Len(logs)) = logs
            /\ logs'[Len(logs')] = data.message
     /\ logs' # logs =>
          \/ \E m \in Msgs : logs' = Append(logs, m)
          \/ handleSubmit /\ logs' = << Seed >>]_vars

\* Two equal consecutive messages, both kept after the seed line.
C16_Witness ==
  /\ logs = << Seed, "a", "a" >>
  /\ loading
  /\ \E c \in Chans : ready[c] = "OPEN" /\ LogMessages(c) = << "a", "a" >>

\* The message of handleSubmit's validation.
NoBoundMessage == "Please select an area on the map first"

\* C17: a submit that local validation rejects surfaces the validation message
\* and changes nothing else: loading, logs, preview, currentBound and the query
\* parameters stay as they were, no channel is opened and nothing is sent.
C17_RejectedSubmitChangesNothing ==
  [][(handleSubmit /\ bounds = Null) =>
       /\ alerts' = NoBoundMessage
       /\ UNCHANGED << bounds, params, loading, previewData, logs, layers >>
       /\ UNCHANGED << ready, cap, sent, closeCalls, recv, downloads, submits >>]_vars

\* A submit rejected after the category was changed, no bound having been set.
C17_Witness ==
  /\ alerts = NoBoundMessage
  /\ bounds = Null
  /\ params.type = Str("bio")
  /\ ~loading /\ logs = << >> /\ previewData = Null
  /\ nOpened = 0 /\ submits = 0

\* C18: a field edit whose value parses sets the named field of currentBound
\* to the parsed number and leaves each of the other three fields as it was,
\* number or unset, also when there was no bound before the edit.
C18_ParsedFieldEditIsLocal ==
  [][\A name \in Fields :
       Sidebar_handleBoundsChange(name, "3") =>
         /\ bounds' # Null
         /\ bounds'[name] = Num(3)
         /\ \A other \in Fields \ {name} : bounds'[other] = Field(bounds, other)]_vars

\* A drawn bound whose north was then edited to 3: the other three fields
\* still hold the rectangle's numbers.
C18_Witness ==
  /\ bounds # Null
  /\ bounds.north = Num(3)
  /\ bounds.south = Num(1) /\ bounds.east = Num(2) /\ bounds.west = Num(1)
  /\ edits = 2

\* A user-initiated update of the bound runs in this step: a rectangle drawn
\* or dragged, or a bound field edited.
UserUpdate ==
  \/ \E r \in Rects : onCreate(r)
  \/ \E old \in layers, r \in Rects : onEdited(old, r)
  \/ \E name \in Fields, value \in RawValues : Sidebar_handleBoundsChange(name, value)

\* C19: a redraw of the overlay writes no bound. A step writes currentBound at
\* most once and redraws at most once, a redraw only follows a write, only a
\* user-initiated update writes or changes currentBound, and after the write
\* the overlay is at rest: running the redraw again would change nothing.
C19_RedrawWritesNoBound ==
  [][/\ writes' <= writes + 1
     /\ redraws' <= redraws + 1
     /\ redraws' # redraws => writes' = writes + 1
     /\ (writes' # writes \/ bounds' # bounds) => UserUpdate
     /\ writes' # writes => Effect(bounds', layers') = layers']_vars

\* A rectangle drawn and its north then edited to 3 in the field: two writes,
\* two redraws, and the rectangle of the edited bound drawn.
C19_Witness ==
  /\ writes = 2 /\ redraws = 2
  /\ bounds = FromLayer([north |-> 3, south |-> 1, east |-> 2, west |-> 1])
  /\ layers = {[north |-> 3, south |-> 1, east |-> 2, west |-> 1]}

\* C20 as stated: whenever currentBound is numeric and valid the overlay holds
\* exactly its rectangle, and every rectangle the overlay displays has the four
\* values of currentBound.
C20_OverlayMatchesBound ==
  /\ ValidBound(bounds) => layers = {[f \in Fields |-> bounds[f].n]}
  /\ \A r \in layers : \A f \in Fields : Field(bounds, f) = Num(r[f])

C22_ArtifactDiscarded ==
  [][/\ onClose => previewData' = Null
     /\ (handleSubmit /\ submits' = submits + 1) => previewData' = Null
     /\ (previewData' # Null /\ previewData' # previewData) =>
          \E c \in Chans, data \in CompleteEvents :
            ws_onmessage(c, data) /\ previewData' = Str(data.csv)]_vars

\* A second search started after the first one delivered its artifact: the
\* artifact was downloaded, and none is held while the new search runs.
C22_Witness ==
  /\ submits = 2
  /\ Terminal(1) = "complete"
  /\ downloads # << >>
  /\ previewData = Null
  /\ loading

====
